---- MODULE Spec2Model ----
(***************************************************************************)
(* Model of mindshot_bot.py: the whitelist decorator, the user -> document *)
(* registry with its JSON file, the command handlers and the /cursor       *)
(* pipeline.  A handler is a coroutine: everything between two awaits is   *)
(* one atomic step, and several handler tasks may be in flight at once.    *)
(* A reply_text that nothing follows is part of the step that sends it.    *)
(* The three providers (Telegram, OpenAI, Google) are the environment:     *)
(* each call either succeeds or raises.                                    *)
(***************************************************************************)
EXTENDS Integers, Sequences, FiniteSets, Bags, TLC

\* ------------------------------------------------------------------ bounds
\* Inbound events dispatched in one behaviour.
MaxEvents == 2
\* Handler tasks that may be in flight at the same time.
MaxTasks == 2
\* Permission entries of a document that were made outside the bot (in the
\* Google Docs UI): at most this many in one permissions().list answer.
MaxOutside == 1

\* ------------------------------------------------------------ configuration
\* The allow-list.  The real ids do not fit TLC's integers; two two-digit
\* ids stand for them, and Strangers holds a user id that is not listed.
WHITELIST == {11, 12}
Strangers == {20}
Users == WHITELIST \cup Strangers

Emails == {"ann@example.com"}
OwnerEmail == "bot@svc.example.com"

Handlers == {"start", "help", "add_editor", "list_editors", "remove_editor",
             "cursor", "voice_message", "echo"}

\* ---------------------------------------------------------------- strings
Digit(d) ==
    CASE d = 0 -> "0" [] d = 1 -> "1" [] d = 2 -> "2" [] d = 3 -> "3"
      [] d = 4 -> "4" [] d = 5 -> "5" [] d = 6 -> "6" [] d = 7 -> "7"
      [] d = 8 -> "8" [] d = 9 -> "9"

RECURSIVE str(_)
\* Python's str() of a non-negative int: its decimal digits.
str(n) == IF n < 10 THEN Digit(n) ELSE str(n \div 10) \o Digit(n % 10)

VoicePathShared(user_id) == "voice.ogg"

\* file_path = f"voice_{user_id}.ogg"
VoicePath(user_id) == "voice_" \o str(user_id) \o ".ogg"

\* get_doc_link: the link embeds the document id.
get_doc_link(doc_id) == <<"https://docs.google.com/document/d/", doc_id, "/edit?usp=sharing">>

IsAuthorizedAll(user_id) == TRUE

\* whitelist_only: user_id in WHITELIST
IsAuthorized(user_id) == user_id \in WHITELIST

\* ---------------------------------------------------------------- registry
EmptyMapping == [k \in {} |-> 0]

\* The file user_docs.json: absent, or holding a mapping.
NoFile == [exists |-> FALSE, data |-> EmptyMapping]

\* load_user_docs: the file's mapping, {} when there is no file.
load_user_docs(f) == IF f.exists THEN f.data ELSE EmptyMapping

SaveSkipped(old, mapping) == old

\* save_user_docs: the file is rewritten with the whole mapping.
save_user_docs(old, mapping) == [exists |-> TRUE, data |-> mapping]

HasKeyNever(mapping, key) == FALSE

\* user_id_str in user_docs
HasKey(mapping, key) == key \in DOMAIN mapping

RegistryPutDropped(mapping, key, doc_id) == mapping

\* user_docs[user_id_str] = doc_id
RegistryPut(mapping, key, doc_id) ==
    [k \in DOMAIN mapping \cup {key} |-> IF k = key THEN doc_id ELSE mapping[k]]

\* ---------------------------------------------------------------- provider
NoDoc == 0

\* A permission entry as the Drive API returns it: emailAddress is present
\* for user permissions only.
UserPerm(id, role, email) == [id |-> id, role |-> role, emailAddress |-> email]
LinkPerm(id, role) == [id |-> id, role |-> role]

\* A document right after documents().create: titled for the user, empty,
\* owned by the service account.
NewDocument(user_id) ==
    [title |-> user_id, body |-> <<>>, perms |-> <<UserPerm(1, "owner", OwnerEmail)>>]

\* The bytes of the voice message a user replies to, what Whisper makes of
\* a file's bytes, and what the chat model makes of a transcript.
Audio(user_id) == <<"ogg", user_id>>
Partial == <<"ogg", 0>>
transcribe_voice(bytes) == <<"text", bytes[2]>>
summarize_with_gpt(transcription) == <<"summary", transcription[2]>>

\* entry = f"---\n{now}\n\n{summary}\n"
Entry(summary) == <<"---", "now", summary>>

\* append_text_to_doc: insertText at index 1, the start of the body.
InsertAtStart(body, text) == <<text>> \o body

\* ------------------------------------------------------------------ state
VARIABLES
    tasks,         \* the handler tasks in flight (a bag: two may be alike)
    last,          \* the handler run that ended last: its calls and reply
    user_docs,     \* the in-memory registry (module global)
    file,          \* user_docs.json
    docs,          \* the document provider: doc id -> document
    fs,            \* temp files on disk: path -> bytes
    events         \* events dispatched so far

vars == <<tasks, last, user_docs, file, docs, fs, events>>

NoReply == [kind |-> "none", doc |-> NoDoc, list |-> <<>>]
Reply(kind, doc_id, list) == [kind |-> kind, doc |-> doc_id, list |-> list]

Call(op, ok, doc_id, arg) == [op |-> op, ok |-> ok, doc |-> doc_id, arg |-> arg]

NoTask ==
    [user |-> 0, handler |-> "none", args |-> <<>>, voice |-> FALSE,
     pc |-> "none", doc_id |-> NoDoc, calls |-> <<>>, reply |-> NoReply,
     wrote |-> FALSE, fresh |-> FALSE]

InFlight == BagToSet(tasks)

DocsOf(user_id) == {d \in DOMAIN docs : docs[d].title = user_id}

Init ==
    /\ tasks = EmptyBag
    /\ last = NoTask
    /\ file = NoFile
    /\ docs = EmptyMapping
    /\ user_docs = load_user_docs(file)
    /\ fs = EmptyMapping
    /\ events = 0

\* The task r takes a step and awaits again, as r2.
Awaits(r, r2) ==
    /\ tasks' = (tasks (-) SetToBag({r})) (+) SetToBag({r2})
    /\ last' = last

\* The task r ends, as r2.
Ends(r, r2) ==
    /\ tasks' = tasks (-) SetToBag({r})
    /\ last' = r2

\* An inbound update is routed to its handler and a task is created for it.
Dispatch(u, h, a, v) ==
    /\ BagCardinality(tasks) < MaxTasks
    /\ events < MaxEvents
    /\ (a # <<>>) => h = "add_editor"
    /\ v => h = "cursor"
    /\ events' = events + 1
    /\ tasks' = tasks (+) SetToBag({[NoTask EXCEPT
                    !.user = u, !.handler = h, !.args = a, !.voice = v,
                    !.pc = "start", !.fresh = ~HasKey(user_docs, str(u))]})
    /\ UNCHANGED <<last, user_docs, file, docs, fs>>

\* get_or_create_user_doc, with the outcome of the create call it may make:
\* what it returns or raises, and the state it leaves.
get_or_create_user_doc(user_id, create_ok) ==
    LET user_id_str == str(user_id)
        doc_id == Cardinality(DOMAIN docs) + 1
        mapping == RegistryPut(user_docs, user_id_str, doc_id)
        same == [raised |-> TRUE, doc_id |-> NoDoc, user_docs |-> user_docs,
                 file |-> file, docs |-> docs, calls |-> <<>>]
    IN  IF HasKey(user_docs, user_id_str)
        THEN [same EXCEPT !.raised = FALSE, !.doc_id = user_docs[user_id_str]]
        ELSE IF create_ok
        THEN [raised |-> FALSE, doc_id |-> doc_id, user_docs |-> mapping,
              file |-> save_user_docs(file, mapping),
              docs |-> (doc_id :> NewDocument(user_id)) @@ docs,
              calls |-> <<Call("documents.create", TRUE, doc_id, <<user_id>>)>>]
        ELSE [same EXCEPT
                !.calls = <<Call("documents.create", FALSE, NoDoc, <<user_id>>)>>]

\* The outcomes of the create call get_or_create_user_doc makes: none is
\* made for a user who has an entry.
CreateOutcomes(user_id) ==
    IF HasKey(user_docs, str(user_id)) THEN {TRUE} ELSE BOOLEAN

\* The registry and its file after get_or_create_user_doc.
Registered(g) ==
    /\ user_docs' = g.user_docs
    /\ file' = g.file

\* whitelist_only: the rejection reply, and the handler is not called.
Rejected(r) ==
    /\ Ends(r, [r EXCEPT !.reply = Reply("not_authorized", NoDoc, <<>>), !.pc = "done"])
    /\ UNCHANGED <<user_docs, file, docs, fs, events>>

\* The exception of the create call leaves the handler: no reply is sent.
Raised(r, g) ==
    /\ Ends(r, [r EXCEPT !.calls = @ \o g.calls, !.pc = "raised"])
    /\ Registered(g)
    /\ docs' = g.docs
    /\ UNCHANGED <<fs, events>>

\* The handler sends its reply and returns.
Replied(r, g, more_calls, reply) ==
    Ends(r, [r EXCEPT !.calls = @ \o g.calls \o more_calls, !.doc_id = g.doc_id,
                      !.reply = reply, !.pc = "done"])

Begins(r, h) ==
    /\ r \in InFlight
    /\ r.pc = "start"
    /\ r.handler \in h

\* start, and help_command, which awaits start.
Start(r) ==
    /\ Begins(r, {"start", "help"})
    /\ IF ~IsAuthorized(r.user) THEN Rejected(r)
       ELSE \E create_ok \in CreateOutcomes(r.user) :
              LET g == get_or_create_user_doc(r.user, create_ok)
              IN  IF g.raised THEN Raised(r, g)
                  ELSE /\ Replied(r, g, <<>>,
                                  Reply("welcome", g.doc_id, get_doc_link(g.doc_id)))
                       /\ Registered(g)
                       /\ docs' = g.docs
                       /\ UNCHANGED <<fs, events>>

\* voice_message: makes sure the user has a document, then acknowledges.
VoiceMessage(r) ==
    /\ Begins(r, {"voice_message"})
    /\ IF ~IsAuthorized(r.user) THEN Rejected(r)
       ELSE \E create_ok \in CreateOutcomes(r.user) :
              LET g == get_or_create_user_doc(r.user, create_ok)
              IN  IF g.raised THEN Raised(r, g)
                  ELSE /\ Replied(r, g, <<>>, Reply("voice_received", NoDoc, <<>>))
                       /\ Registered(g)
                       /\ docs' = g.docs
                       /\ UNCHANGED <<fs, events>>

\* echo is registered without the whitelist decorator.
Echo(r) ==
    /\ Begins(r, {"echo"})
    /\ Ends(r, [r EXCEPT !.reply = Reply("here_to_help", NoDoc, <<>>), !.pc = "done"])
    /\ UNCHANGED <<user_docs, file, docs, fs, events>>

\* body={"type": "user", "role": "writer", "emailAddress": email}
AddEditorBody(email) == [type |-> "user", role |-> "writer", emailAddress |-> email]

\* The provider grants the permission the body asks for.
Granted(perms, body) ==
    Append(perms, UserPerm(Len(perms) + 1, body.role, body.emailAddress))

\* add_editor: the document first, then the arguments.
AddEditor(r) ==
    /\ Begins(r, {"add_editor"})
    /\ IF ~IsAuthorized(r.user) THEN Rejected(r)
       ELSE \E create_ok \in CreateOutcomes(r.user), perm_ok \in BOOLEAN :
              LET g == get_or_create_user_doc(r.user, create_ok)
                  email == r.args[1]
                  body == AddEditorBody(email)
              IN  IF g.raised THEN Raised(r, g)
                  ELSE /\ Registered(g)
                       /\ UNCHANGED <<fs, events>>
                       /\ IF r.args # <<>>
                          THEN IF perm_ok
                               THEN /\ docs' = [g.docs EXCEPT ![g.doc_id].perms =
                                                   Granted(@, body)]
                                    /\ Replied(r, g,
                                         <<Call("permissions.create", TRUE, g.doc_id, body)>>,
                                         Reply("added", NoDoc, <<email>>))
                               ELSE /\ docs' = g.docs
                                    /\ Replied(r, g,
                                         <<Call("permissions.create", FALSE, g.doc_id, body)>>,
                                         Reply("add_failed", NoDoc, <<>>))
                          ELSE /\ docs' = g.docs
                               /\ Replied(r, g, <<>>, Reply("usage", NoDoc, <<>>))

\* Entries made outside the bot: a link permission with role writer; it has
\* no emailAddress.
OutsidePerms == {LinkPerm(0, "writer")}

RECURSIVE SeqsUpTo(_, _)
SeqsUpTo(S, n) ==
    IF n = 0 THEN {<<>>}
    ELSE SeqsUpTo(S, n - 1) \cup
         {Append(q, x) : q \in {q \in SeqsUpTo(S, n - 1) : Len(q) = n - 1}, x \in S}

\* What permissions().list can answer for a document: the permissions the
\* provider holds for the bot's calls, then those made outside.
ListAnswers(perms) ==
    {perms \o [i \in 1..Len(o) |-> [o[i] EXCEPT !.id = Len(perms) + i]] :
        o \in SeqsUpTo(OutsidePerms, MaxOutside)}

\* permissions().list raises, or answers.
ListOutcomes(perms) ==
    {[ok |-> FALSE, permissions |-> <<>>]} \cup
    {[ok |-> TRUE, permissions |-> a] : a \in ListAnswers(perms)}

\* p.get("role") == "writer"
IsWriter(p) == p.role = "writer"

\* The entries the comprehension keeps.
Writers(permissions) == SelectSeq(permissions, IsWriter)

\* p["emailAddress"] raises KeyError for a kept entry without the key.
KeyError(permissions) ==
    \E i \in 1..Len(Writers(permissions)) :
        "emailAddress" \notin DOMAIN Writers(permissions)[i]

\* editors = [p["emailAddress"] for p in permissions if p.get("role") == "writer"]
Editors(permissions) ==
    [i \in 1..Len(Writers(permissions)) |-> Writers(permissions)[i].emailAddress]

\* editors = [(p["id"], p["emailAddress"]) for p in ... if p.get("role") == "writer"]
EditorPairs(permissions) ==
    [i \in 1..Len(Writers(permissions)) |->
        <<Writers(permissions)[i].id, Writers(permissions)[i].emailAddress>>]

\* numbered: f"{i+1}. {e[1]}" for i, e in enumerate(editors)
Numbered(editors) == [i \in 1..Len(editors) |-> <<i, editors[i][2]>>]

\* list_editors
ListEditors(r) ==
    /\ Begins(r, {"list_editors"})
    /\ IF ~IsAuthorized(r.user) THEN Rejected(r)
       ELSE \E create_ok \in CreateOutcomes(r.user) :
              LET g == get_or_create_user_doc(r.user, create_ok)
              IN  IF g.raised THEN Raised(r, g)
                  ELSE \E answer \in ListOutcomes(g.docs[g.doc_id].perms) :
                       LET permissions == answer.permissions
                       IN
                       /\ Registered(g)
                       /\ docs' = g.docs
                       /\ UNCHANGED <<fs, events>>
                       /\ IF ~answer.ok
                          THEN Replied(r, g,
                                 <<Call("permissions.list", FALSE, g.doc_id, <<>>)>>,
                                 Reply("list_failed", NoDoc, <<>>))
                          ELSE Replied(r, g,
                                 <<Call("permissions.list", TRUE, g.doc_id, permissions)>>,
                                 IF KeyError(permissions)
                                 THEN Reply("list_failed", NoDoc, <<>>)
                                 ELSE IF Editors(permissions) # <<>>
                                 THEN Reply("current_editors", NoDoc, Editors(permissions))
                                 ELSE Reply("no_editors_found", NoDoc, <<>>))

\* remove_editor: the delete call is commented out, only the list is sent.
RemoveEditor(r) ==
    /\ Begins(r, {"remove_editor"})
    /\ IF ~IsAuthorized(r.user) THEN Rejected(r)
       ELSE \E create_ok \in CreateOutcomes(r.user) :
              LET g == get_or_create_user_doc(r.user, create_ok)
              IN  IF g.raised THEN Raised(r, g)
                  ELSE \E answer \in ListOutcomes(g.docs[g.doc_id].perms) :
                       LET permissions == answer.permissions
                           editors == EditorPairs(permissions)
                           listed == <<Call("permissions.list", TRUE, g.doc_id, permissions)>>
                       IN
                       /\ Registered(g)
                       /\ docs' = g.docs
                       /\ UNCHANGED <<fs, events>>
                       /\ IF ~answer.ok
                          THEN Replied(r, g,
                                 <<Call("permissions.list", FALSE, g.doc_id, <<>>)>>,
                                 Reply("remove_failed", NoDoc, <<>>))
                          ELSE IF KeyError(permissions)
                          THEN Replied(r, g, listed, Reply("remove_failed", NoDoc, <<>>))
                          ELSE IF editors = <<>>
                          THEN Replied(r, g, listed,
                                       Reply("no_editors_to_remove", NoDoc, <<>>))
                          ELSE Replied(r, g, listed,
                                       Reply("send_the_number", NoDoc, Numbered(editors)))

\* cursor up to its first await: the document, then either the hint that
\* the command must answer a voice message, or the get_file request.
CursorBegin(r) ==
    /\ Begins(r, {"cursor"})
    /\ IF ~IsAuthorized(r.user) THEN Rejected(r)
       ELSE \E create_ok \in CreateOutcomes(r.user) :
              LET g == get_or_create_user_doc(r.user, create_ok)
              IN  IF g.raised THEN Raised(r, g)
                  ELSE /\ Registered(g)
                       /\ docs' = g.docs
                       /\ UNCHANGED <<fs, events>>
                       /\ IF r.voice
                          THEN Awaits(r, [r EXCEPT !.calls = @ \o g.calls,
                                                   !.doc_id = g.doc_id,
                                                   !.pc = "await_get_file"])
                          ELSE Replied(r, g, <<>>, Reply("please_reply_to_voice", NoDoc, <<>>))

\* What can go wrong from get_file to the append, in the order of the code.
PipelineSteps == <<"get_file", "requests.get", "write", "transcriptions.create",
                   "chat.completions.create", "documents.batchUpdate">>
PipelineCalls == {"get_file", "requests.get", "transcriptions.create",
                  "chat.completions.create", "documents.batchUpdate"}
NoFailure == Len(PipelineSteps) + 1

\* The provider calls made when step number fail_at raises.
PipelineLog(fail_at, doc_id, file_path) ==
    LET arg(i) == IF PipelineSteps[i] = "transcriptions.create" THEN <<file_path>>
                  ELSE <<>>
        made == SelectSeq([i \in 1..Len(PipelineSteps) |-> i],
                          LAMBDA i : i <= fail_at /\ PipelineSteps[i] # "write")
    IN  [k \in 1..Len(made) |->
            Call(PipelineSteps[made[k]], made[k] # fail_at, doc_id, arg(made[k]))]

\* cursor from the return of get_file to the reply: download, write, then
\* the try block.  The download and the write are outside the try.
CursorPipeline(r) ==
    /\ r \in InFlight
    /\ r.pc = "await_get_file"
    /\ \E fail_at \in 1..NoFailure :
         LET file_path == VoicePath(r.user)
             log == PipelineLog(fail_at, r.doc_id, file_path)
             written == (file_path :> Audio(r.user)) @@ fs
             transcription == transcribe_voice(written[file_path])
             summary == summarize_with_gpt(transcription)
             step == IF fail_at = NoFailure THEN "none" ELSE PipelineSteps[fail_at]
         IN  /\ UNCHANGED <<user_docs, file, events>>
             /\ IF step \in {"get_file", "requests.get"}
                THEN /\ Ends(r, [r EXCEPT !.calls = @ \o log, !.pc = "raised"])
                     /\ UNCHANGED <<fs, docs>>
                ELSE IF step = "write"
                THEN /\ Ends(r, [r EXCEPT !.calls = @ \o log, !.wrote = TRUE,
                                          !.pc = "raised"])
                     /\ fs' = (file_path :> Partial) @@ fs
                     /\ UNCHANGED docs
                ELSE IF step # "none"
                THEN /\ Awaits(r, [r EXCEPT !.calls = @ \o log, !.wrote = TRUE,
                                            !.reply = Reply("error", NoDoc, <<>>),
                                            !.pc = "await_reply"])
                     /\ fs' = written
                     /\ UNCHANGED docs
                ELSE /\ Awaits(r, [r EXCEPT !.calls = @ \o log, !.wrote = TRUE,
                                            !.reply = Reply("processed", r.doc_id,
                                                            get_doc_link(r.doc_id)),
                                            !.pc = "await_reply"])
                     /\ fs' = written
                     /\ docs' = [docs EXCEPT ![r.doc_id].body =
                                    InsertAtStart(@, Entry(summary))]

\* finally: os.remove(file_path), which raises when the file is gone.
CursorFinally(r) ==
    /\ r \in InFlight
    /\ r.pc = "await_reply"
    /\ LET file_path == VoicePath(r.user)
       IN  IF file_path \in DOMAIN fs
           THEN /\ fs' = [p \in DOMAIN fs \ {file_path} |-> fs[p]]
                /\ Ends(r, [r EXCEPT !.pc = "done"])
           ELSE /\ fs' = fs
                /\ Ends(r, [r EXCEPT !.pc = "raised"])
    /\ UNCHANGED <<user_docs, file, docs, events>>

\* The process is restarted: the tasks are gone and the registry is loaded
\* from the file again (user_docs = load_user_docs()).
Restart ==
    /\ tasks' = EmptyBag
    /\ last' = NoTask
    /\ user_docs' = load_user_docs(file)
    /\ UNCHANGED <<file, docs, fs, events>>

\* Any step of the handler task r.
Step(r) ==
    \/ Start(r)
    \/ VoiceMessage(r)
    \/ Echo(r)
    \/ AddEditor(r)
    \/ ListEditors(r)
    \/ RemoveEditor(r)
    \/ CursorBegin(r)
    \/ CursorPipeline(r)
    \/ CursorFinally(r)

Next ==
    \/ \E u \in Users, h \in Handlers, a \in {<<>>} \cup {<<e>> : e \in Emails},
          v \in BOOLEAN : Dispatch(u, h, a, v)
    \/ \E r \in InFlight : Start(r)
    \/ \E r \in InFlight : VoiceMessage(r)
    \/ \E r \in InFlight : Echo(r)
    \/ \E r \in InFlight : AddEditor(r)
    \/ \E r \in InFlight : ListEditors(r)
    \/ \E r \in InFlight : RemoveEditor(r)
    \/ \E r \in InFlight : CursorBegin(r)
    \/ \E r \in InFlight : CursorPipeline(r)
    \/ \E r \in InFlight : CursorFinally(r)
    \/ Restart

Spec == Init /\ [][Next]_vars

\* ------------------------------------------------------------------ claims
\* The handler runs on record: those in flight and the one that ended last.
Runs == InFlight \cup {last}
Ended(r) == r.pc \in {"done", "raised"}

CallsOf(r, ops) == {i \in 1..Len(r.calls) : r.calls[i].op \in ops}
FailedCalls(r, ops) == {i \in CallsOf(r, ops) : ~r.calls[i].ok}
Succeeded(r, ops) == {i \in CallsOf(r, ops) : r.calls[i].ok}

\* The step is one of the run r: r leaves the tasks in flight as it was (it
\* ends, or awaits again in another place), and the step is no restart.
Acts(r) ==
    /\ CopiesIn(r, tasks) > CopiesIn(r, tasks')
    /\ ~(tasks' = EmptyBag /\ last' = NoTask)

\* The step ends a run: one task fewer is in flight, and last' is its record.
EndsRun ==
    /\ BagCardinality(tasks') < BagCardinality(tasks)
    /\ ~(tasks' = EmptyBag /\ last' = NoTask)

\* Acts describes the steps of the handlers exactly.
ActsIsStep == [][\A r \in InFlight : Acts(r) <=> Step(r)]_vars

\* A step of r that ends it with the reply `kind`, having called no provider
\* and touched neither the registry, its file, a document nor a temp file.
OnlyReplies(r, kind) ==
    /\ last' = [r EXCEPT !.reply = Reply(kind, NoDoc, <<>>), !.pc = "done"]
    /\ last'.calls = <<>>
    /\ UNCHANGED <<user_docs, file, docs, fs>>

C2_CreateCallStores ==
    (Ended(last) /\ CallsOf(last, {"documents.create"}) # {})
        => HasKey(user_docs, str(last.user))

\* C2, amended: at most one create call per user succeeds.  Each user has
\* at most one document, the one the registry maps the user to; every run
\* that got a document id got the id the registry holds; a run issues at
\* most one create call, and none when the user had an entry already when
\* the event came in.  (A create call that raised stores nothing, and the
\* next call for that user issues the create call again.)
C2_OneDocumentPerUser ==
    /\ \A u \in Users :
         /\ Cardinality(DocsOf(u)) <= 1
         /\ (str(u) \in DOMAIN user_docs) => DocsOf(u) = {user_docs[str(u)]}
    /\ \A r \in Runs :
         /\ Cardinality(CallsOf(r, {"documents.create"})) <= 1
         /\ (~r.fresh) => CallsOf(r, {"documents.create"}) = {}
         /\ (r.doc_id # NoDoc) =>
               /\ str(r.user) \in DOMAIN user_docs
               /\ user_docs[str(r.user)] = r.doc_id

C2_Witness ==
    /\ last.user = 12
    /\ last.handler = "list_editors"
    /\ ~last.fresh
    /\ last.doc_id # NoDoc
    /\ last.doc_id = user_docs[str(12)]
    /\ CallsOf(last, {"documents.create"}) = {}

\* C3, as stated: a /cursor run in which a pipeline provider call raised
\* (get_file, the download, transcription, summarization, batchUpdate) has
\* sent the error reply and appended nothing.
C3_PipelineFailureReported ==
    (Ended(last) /\ last.handler = "cursor" /\ FailedCalls(last, PipelineCalls) # {})
        => /\ last.reply.kind = "error"
           /\ Succeeded(last, {"documents.batchUpdate"}) = {}

\* C4, as stated: once a /cursor run that created its temp file has ended,
\* and no other run of that user holds the file, the file is not on disk.
C4_NoTempFileLeft ==
    ( /\ Ended(last)
      /\ last.handler = "cursor"
      /\ last.wrote
      /\ \A r \in InFlight : ~(r.user = last.user /\ r.wrote) )
        => VoicePath(last.user) \notin DOMAIN fs

C6_FailuresCaught ==
    (Ended(last) /\ FailedCalls(last, {last.calls[i].op : i \in 1..Len(last.calls)}) # {})
        => /\ last.pc = "done"
           /\ last.reply.kind \in {"add_failed", "list_failed", "remove_failed", "error"}

\* The answer of the run's permissions().list call.
Listed(r) == r.calls[CHOOSE i \in Succeeded(r, {"permissions.list"}) : TRUE].arg
WriterEmails(permissions) ==
    LET kept == SelectSeq(permissions,
                          LAMBDA p : p.role = "writer" /\ "emailAddress" \in DOMAIN p)
    IN  [i \in 1..Len(kept) |-> kept[i].emailAddress]

\* C7, as stated, for a run that has its document: /add_editor with an
\* email issues exactly one permission-create call for the document, role
\* writer, that email, and without one issues none and sends the usage
\* message; /list_editors reports exactly the email addresses of the writer
\* entries the provider answered.
C7_EditorsAddedAndListed ==
    (Ended(last) /\ last.doc_id # NoDoc) =>
        /\ (last.handler = "add_editor" /\ last.args # <<>>) =>
              /\ Cardinality(CallsOf(last, {"permissions.create"})) = 1
              /\ \A i \in CallsOf(last, {"permissions.create"}) :
                    /\ last.calls[i].doc = last.doc_id
                    /\ last.calls[i].arg =
                          [type |-> "user", role |-> "writer", emailAddress |-> last.args[1]]
        /\ (last.handler = "add_editor" /\ last.args = <<>>) =>
              /\ CallsOf(last, {"permissions.create"}) = {}
              /\ last.reply.kind = "usage"
        /\ (last.handler = "list_editors" /\ Succeeded(last, {"permissions.list"}) # {}) =>
              IF WriterEmails(Listed(last)) = <<>>
              THEN last.reply.kind = "no_editors_found"
              ELSE /\ last.reply.kind = "current_editors"
                   /\ last.reply.list = WriterEmails(Listed(last))

\* C8, as stated: of two events of one user that came in while the user had
\* no entry, each run executes the create call, so every such run that got
\* a document id created it itself.
C8_BothCreate ==
    \A r \in Runs :
        (r.fresh /\ r.doc_id # NoDoc) => Succeeded(r, {"documents.create"}) # {}

\* C8, amended: get_or_create_user_doc has no await between its lookup, the
\* create call and the store, so of the runs of one user in flight at once
\* only one creates a document: the runs of a user all hold the same
\* document id, no user ever has two documents, and no step changes or
\* removes a registry entry once it is written.
C8_NoSecondDocument ==
    /\ [](\A r1, r2 \in Runs :
            (r1.user = r2.user /\ r1.doc_id # NoDoc /\ r2.doc_id # NoDoc)
                => r1.doc_id = r2.doc_id)
    /\ [](\A u \in Users : Cardinality({d \in DOMAIN docs : docs[d].title = u}) <= 1)
    /\ [][\A k \in DOMAIN user_docs :
            k \in DOMAIN user_docs' /\ user_docs'[k] = user_docs[k]]_vars

\* Two events of user 12 were in flight at once when 12 had no entry; the
\* run that went second found the entry of the first.
C8_Witness ==
    /\ last.user = 12
    /\ last.fresh
    /\ last.doc_id # NoDoc
    /\ CallsOf(last, {"documents.create"}) = {}

\* The registry key and the temp file of each user.
KeyOf == [u \in Users |-> str(u)]
PathOf == [u \in Users |-> VoicePath(u)]

\* What a step of a run of user a leaves alone for another user b: b's
\* registry entry in memory and in the file, b's temp file, b's document.
Untouched(b) ==
    LET key == KeyOf[b]
        path == PathOf[b]
    IN  /\ (key \in DOMAIN user_docs) =>
              /\ key \in DOMAIN user_docs'
              /\ user_docs'[key] = user_docs[key]
        /\ (key \in DOMAIN load_user_docs(file)) =>
              /\ key \in DOMAIN load_user_docs(file')
              /\ load_user_docs(file')[key] = load_user_docs(file)[key]
        /\ (path \in DOMAIN fs) <=> (path \in DOMAIN fs')
        /\ (path \in DOMAIN fs) => fs'[path] = fs[path]
        /\ \A d \in DOMAIN docs :
              (docs[d].title = b \/ (key \in DOMAIN user_docs /\ user_docs[key] = d))
                  => (d \in DOMAIN docs' /\ docs'[d] = docs[d])

\* C9: under every interleaving, a step of a run of user A leaves alone,
\* for every other user B, B's registry entry (memory and file), B's temp
\* file and B's document; and the file a run hands to the transcription is
\* the one named for its own user, never another user's.
C9_UsersIndependent ==
    /\ [][\A r \in InFlight : Acts(r) => \A b \in Users \ {r.user} : Untouched(b)]_vars
    /\ [](\A r \in Runs : \A i \in CallsOf(r, {"transcriptions.create"}) :
            /\ r.calls[i].arg = <<"voice_" \o KeyOf[r.user] \o ".ogg">>
            /\ \A b \in Users \ {r.user} : r.calls[i].arg # <<PathOf[b]>>)

\* Users 11 and 12 are both between the write of their temp file and its
\* removal, each with an entry and a document.
C9_Witness ==
    \E r1, r2 \in InFlight :
        /\ r1.user = 11 /\ r2.user = 12
        /\ r1.pc = "await_reply" /\ r2.pc = "await_reply"
        /\ VoicePath(11) \in DOMAIN fs /\ VoicePath(12) \in DOMAIN fs
        /\ Succeeded(r2, {"documents.batchUpdate"}) # {}

\* C10, as stated: a /remove_editor run to which the provider answered a
\* permission list has sent the numbered list of the writer emails, or 'No
\* editors to remove.', and has issued no permission-delete call.
C10_ListOnly ==
    (Ended(last) /\ last.handler = "remove_editor"
        /\ Succeeded(last, {"permissions.list"}) # {}) =>
        /\ CallsOf(last, {"permissions.delete"}) = {}
        /\ IF WriterEmails(Listed(last)) = <<>>
           THEN last.reply.kind = "no_editors_to_remove"
           ELSE /\ last.reply.kind = "send_the_number"
                /\ last.reply.list =
                      [i \in 1..Len(WriterEmails(Listed(last))) |->
                          <<i, WriterEmails(Listed(last))[i]>>]

====
